---------------------------- MODULE Spec2Model ----------------------------
(***************************************************************************)
(* Klaro documentation agent (src/main.py): the LangGraph loop             *)
(* run_model -> decide_next_step -> call_tool -> run_model, the session    *)
(* driver run_klaro_langgraph and the timeout wrapper run_with_timeout.    *)
(*                                                                         *)
(* Texts are sequences of symbols; each symbol stands for a fixed string:  *)
(*   "FA" = "Final Answer"      "fa" = "final answer" (any other casing)   *)
(*   ":"  = ":"   " " = " "     "nl" = "\n"     "#" = "#"                  *)
(*   "S"  = "## Setup"          "s"  = "## setup"                          *)
(*   "L"  = 201 ordinary characters           "x" = one ordinary character *)
(* so "Final Answer:" is << "FA", ":" >>.                                  *)
(***************************************************************************)
EXTENDS Integers, Sequences, FiniteSets, TLC

VARIABLES
    messages,   \* AgentState["messages"]: the conversation history
    error_log,  \* AgentState["error_log"]
    node,       \* the graph's position: next node to run, "END" or "raised"
    trace,      \* the nodes executed so far, "R" (run_model) / "T" (call_tool)
    stub,       \* which model stub answers model.invoke
    body,       \* the document body the "final_first" stub emits
    nextId,     \* next fresh tool-call id issued by the model gateway
    worker,     \* the worker thread of run_with_timeout
    report,     \* what run_klaro_langgraph printed
    artifact,   \* the final message the driver printed on success
    route,      \* last value returned by decide_next_step
    warned,     \* the heuristic-completion warning was printed
    KLARO_RETRIEVER,  \* tools.KLARO_RETRIEVER: "None" or the retriever
    init_calls, \* number of init_knowledge_base calls made so far
    driver,     \* the statement run_klaro_langgraph is at
    arg,        \* argument of a function called on its own
    result      \* what that call returned

vars == << messages, error_log, node, trace, stub, body, nextId, worker,
           report, artifact, route, warned,
           KLARO_RETRIEVER, init_calls, driver, arg, result >>

\* `result` before and after the call
NoResult == [returned |-> FALSE, value |-> "none"]
Returned(v) == [returned |-> TRUE, value |-> v]

\* what the graph's nodes and the waiting driver never write
outside_loop == << KLARO_RETRIEVER, init_calls, driver, arg, result >>

(***************************************************************************)
(* Bounds of the model.                                                    *)
(***************************************************************************)
\* KLARO_RECURSION_LIMIT (default 50), scaled down.  It is also passed to
\* app.invoke as the graph's own recursion_limit; the router below ends the
\* loop within that many node executions (C2), so the graph's limit is
\* never the one that stops a session and GraphRecursionError is not modelled.
RECURSION_LIMIT == 6
\* longest text (in symbols) the stubs draw document bodies / contents from
MaxLen == 3
\* most tool requests one model response carries
MaxCalls == 2

\* len(content) > 200 (is_substantial)
SubstantialLen == 200

(***************************************************************************)
(* Text functions.                                                         *)
(***************************************************************************)
Alphabet == {"FA", "fa", ":", " ", "nl", "#", "x"}
RouterAlphabet == {"FA", "fa", "nl", "#", "S", "L", "x"}

RECURSIVE SeqsUpTo(_, _)
SeqsUpTo(S, n) ==
    IF n = 0 THEN {<<>>}
    ELSE LET shorter == SeqsUpTo(S, n - 1)
         IN  shorter \cup {Append(t, c) : t \in {u \in shorter : Len(u) = n - 1}, c \in S}

\* str.lower() on one symbol
Lower(c) == CASE c = "FA" -> "fa" [] c = "S" -> "s" [] OTHER -> c

\* number of characters a symbol stands for
CharLen(c) ==
    CASE c \in {"FA", "fa"} -> 12
      [] c \in {"S", "s"} -> 8
      [] c = "L" -> 201
      [] OTHER -> 1

RECURSIVE TextLen(_)
TextLen(t) == IF t = <<>> THEN 0 ELSE CharLen(Head(t)) + TextLen(Tail(t))

\* str.startswith
StartsWith(t, p) == Len(t) >= Len(p) /\ SubSeq(t, 1, Len(p)) = p

\* str.replace(p, ""): every non-overlapping occurrence, scanning left to right
RECURSIVE ReplaceAll(_, _)
ReplaceAll(t, p) ==
    IF t = <<>> THEN <<>>
    ELSE IF StartsWith(t, p) THEN ReplaceAll(SubSeq(t, Len(p) + 1, Len(t)), p)
    ELSE <<Head(t)>> \o ReplaceAll(Tail(t), p)

IsSpace(c) == c \in {" ", "nl"}

RECURSIVE LStrip(_)
LStrip(t) == IF t # <<>> /\ IsSpace(Head(t)) THEN LStrip(Tail(t)) ELSE t

RECURSIVE RStrip(_)
RStrip(t) ==
    IF t # <<>> /\ IsSpace(t[Len(t)]) THEN RStrip(SubSeq(t, 1, Len(t) - 1)) ELSE t

\* str.strip()
Strip(t) == RStrip(LStrip(t))

\* the literal "Final Answer:"
FinalAnswerPrefix == <<"FA", ":">>

(***************************************************************************)
(* Messages.                                                               *)
(***************************************************************************)
HumanMessage(c) ==
    [role |-> "human", content |-> c, tool_calls |-> <<>>, tool_call_id |-> 0]
AIMessage(c, calls) ==
    [role |-> "ai", content |-> c, tool_calls |-> calls, tool_call_id |-> 0]
ToolMessage(c, id) ==
    [role |-> "tool", content |-> c, tool_calls |-> <<>>, tool_call_id |-> id]

\* the seeded system prompt + task
initial_message_content == <<"task">>
inputs == <<HumanMessage(initial_message_content)>>

\* the reducer of AgentState.messages: lambda x, y: x + y
ReducerReplace(x, y) == y
Reducer(x, y) == x \o y

(***************************************************************************)
(* Tool registry and ToolNode.                                             *)
(***************************************************************************)
tools == {"list_files", "read_file", "analyze_code", "web_search", "retrieve_knowledge"}

\* search_kwargs={"k": 3}: the retriever delivers at most k chunks
TopK == 3
Digits == <<"1", "2", "3">>
Chunks == {"chunkA", "chunkB"}

\* KLARO_RETRIEVER.invoke(query): the chunks found, best first, or an exception
RetrieverOutcomes ==
    {[raised |-> FALSE, docs |-> d] : d \in SeqsUpTo(Chunks, TopK)}
    \cup {[raised |-> TRUE, docs |-> <<>>]}

\* "\n---\n".join(f"Source {i+1}: {doc.page_content}" ...), from the i-th chunk on
RECURSIVE result_texts(_, _)
result_texts(docs, i) ==
    IF i > Len(docs) THEN <<>>
    ELSE <<"Source", Digits[i], ":", docs[i]>>
         \o (IF i < Len(docs) THEN <<"nl", "---", "nl">> ELSE <<>>)
         \o result_texts(docs, i + 1)

retrieve_knowledge_unchecked(retriever, outcome) ==
    IF outcome.raised \/ retriever = "None"
    THEN <<"Error retrieving knowledge:", "e">>
    ELSE <<"Retrieved Information:", "nl">> \o result_texts(outcome.docs, 1)
retrieve_knowledge(retriever, outcome) ==
    IF retriever = "None"
    THEN <<"Error:", "Knowledge base not initialized.">>
    ELSE IF outcome.raised
    THEN <<"Error retrieving knowledge:", "e">>
    ELSE <<"Retrieved Information:", "nl">> \o result_texts(outcome.docs, 1)

\* init_knowledge_base(documents): the retriever afterwards and the text
\* returned; `outcome` is whether chunking, embedding and storing succeeded
init_knowledge_base_resets(retriever, documents, outcome) ==
    IF documents = <<>>
    THEN [retriever |-> "None", text |-> "Warning: No documents provided"]
    ELSE IF outcome = "failed"
    THEN [retriever |-> "None", text |-> "Error initializing knowledge base"]
    ELSE [retriever |-> "retriever", text |-> "successfully initialized"]
init_knowledge_base(retriever, documents, outcome) ==
    IF documents = <<>>
    THEN [retriever |-> retriever, text |-> "Warning: No documents provided"]
    ELSE IF outcome = "failed"
    THEN [retriever |-> retriever, text |-> "Error initializing knowledge base"]
    ELSE [retriever |-> "retriever", text |-> "successfully initialized"]

\* the observation for one tool request: the tool's return value, the text
\* of the exception it raised (ToolNode catches it), or the invalid-tool
\* error for a name that is not registered
Observations(call) ==
    IF call.name = "retrieve_knowledge"
    THEN {ToolMessage(retrieve_knowledge(KLARO_RETRIEVER, o), call.id) :
            o \in RetrieverOutcomes}
    ELSE IF call.name \in tools
    THEN {ToolMessage(<<"result", call.name>>, call.id),
          ToolMessage(<<"Error:", call.name, "raised">>, call.id)}
    ELSE {ToolMessage(<<"Error:", call.name, "is not a valid tool">>, call.id)}

ObservationSeqs(calls) ==
    {obs \in [1..Len(calls) -> UNION {Observations(calls[i]) : i \in 1..Len(calls)}] :
        \A i \in 1..Len(calls) : obs[i] \in Observations(calls[i])}

\* ToolNode(tools): one ToolMessage per tool call of the last message, in
\* call order; the node returns {"messages": [...]} and never raises
ToolNodeLookupRaises(calls) ==
    IF \E i \in 1..Len(calls) : calls[i].name \notin tools
    THEN {[raised |-> TRUE, update |-> <<>>]}
    ELSE {[raised |-> FALSE, update |-> obs] : obs \in ObservationSeqs(calls)}
ToolNodeReversed(calls) ==
    {[raised |-> FALSE, update |-> [i \in 1..Len(calls) |-> obs[Len(calls) + 1 - i]]] :
        obs \in ObservationSeqs(calls)}
ToolNodeSameId(calls) ==
    {[raised |-> FALSE,
      update |-> [i \in 1..Len(calls) |-> [obs[i] EXCEPT !.tool_call_id = calls[1].id]]] :
        obs \in ObservationSeqs(calls)}
ToolNode(calls) ==
    {[raised |-> FALSE, update |-> obs] : obs \in ObservationSeqs(calls)}

(***************************************************************************)
(* decide_next_step.                                                       *)
(***************************************************************************)
ContainsFinalAnswer(content) ==
    \E i \in 1..Len(content) : Lower(content[i]) = "fa"

has_markdown_header(content) ==
    \/ (content # <<>> /\ content[1] \in {"#", "S", "s"})
    \/ \E i \in 1..(Len(content) - 1) :
          content[i] = "nl" /\ content[i + 1] \in {"#", "S", "s"}

has_setup_section(content) ==
    \E i \in 1..Len(content) : Lower(content[i]) = "s"

is_substantial(content) == TextLen(content) > SubstantialLen

HeuristicCompleteNoHeader(content) ==
    has_setup_section(content) \/ is_substantial(content)
HeuristicComplete(content) ==
    has_markdown_header(content) /\ (has_setup_section(content) \/ is_substantial(content))

\* rules 2-4 of the decision tree: completion, tool calls, continue
CompletionAlwaysWarns(last_message) ==
    LET content == last_message.content
    IN  IF content # <<>> /\ (ContainsFinalAnswer(content) \/ HeuristicComplete(content))
        THEN [to |-> "END", by |-> "heuristic"]
        ELSE [to |-> "none", by |-> "none"]
Completion(last_message) ==
    LET content == last_message.content
    IN  IF content # <<>> /\ ContainsFinalAnswer(content)
        THEN [to |-> "END", by |-> "explicit"]
        ELSE IF content # <<>> /\ HeuristicComplete(content)
        THEN [to |-> "END", by |-> "heuristic"]
        ELSE [to |-> "none", by |-> "none"]

ToolsOrContinueNoTools(last_message) ==
    IF last_message.role # "ai"
    THEN [to |-> "AttributeError", by |-> "raise"]
    ELSE [to |-> "run_model", by |-> "continue"]
ToolsOrContinueEnds(last_message) ==
    IF last_message.role # "ai"
    THEN [to |-> "AttributeError", by |-> "raise"]
    ELSE IF last_message.tool_calls # <<>>
    THEN [to |-> "call_tool", by |-> "tool_calls"]
    ELSE [to |-> "END", by |-> "continue"]
ToolsOrContinue(last_message) ==
    IF last_message.role # "ai"     \* only an AIMessage has .tool_calls
    THEN [to |-> "AttributeError", by |-> "raise"]
    ELSE IF last_message.tool_calls # <<>>
    THEN [to |-> "call_tool", by |-> "tool_calls"]
    ELSE [to |-> "run_model", by |-> "continue"]

\* the routing result, and which rule produced it
decide_no_limit(msgs, err) ==
    IF msgs = <<>> THEN [to |-> "IndexError", by |-> "raise"]
    ELSE LET last_message == msgs[Len(msgs)]
         IN  IF err # "" THEN [to |-> "run_model", by |-> "error"]
             ELSE IF Completion(last_message).to = "END" THEN Completion(last_message)
             ELSE ToolsOrContinue(last_message)
decide_completion_first(msgs, err) ==
    IF msgs = <<>> THEN [to |-> "IndexError", by |-> "raise"]
    ELSE LET last_message == msgs[Len(msgs)]
         IN  IF Len(msgs) >= RECURSION_LIMIT THEN [to |-> "END", by |-> "limit"]
             ELSE IF Completion(last_message).to = "END" THEN Completion(last_message)
             ELSE IF err # "" THEN [to |-> "run_model", by |-> "error"]
             ELSE ToolsOrContinue(last_message)
decide_tools_first(msgs, err) ==
    IF msgs = <<>> THEN [to |-> "IndexError", by |-> "raise"]
    ELSE LET last_message == msgs[Len(msgs)]
         IN  IF Len(msgs) >= RECURSION_LIMIT THEN [to |-> "END", by |-> "limit"]
             ELSE IF err # "" THEN [to |-> "run_model", by |-> "error"]
             ELSE IF ToolsOrContinue(last_message).to = "call_tool"
             THEN ToolsOrContinue(last_message)
             ELSE IF Completion(last_message).to = "END" THEN Completion(last_message)
             ELSE ToolsOrContinue(last_message)
decide_observes_abort(msgs, err) ==
    IF msgs = <<>> THEN [to |-> "IndexError", by |-> "raise"]
    ELSE IF report = "timeout" \/ Len(msgs) >= RECURSION_LIMIT
    THEN [to |-> "END", by |-> "limit"]
    ELSE decide_no_limit(msgs, err)

\* message_count >= RECURSION_LIMIT * 0.95
approaching(limit, message_count) == message_count * 100 >= limit * 95

\* decide_next_step under a configured RECURSION_LIMIT (KLARO_RECURSION_LIMIT)
decide_ends_when_approaching(limit, msgs, err) ==
    IF msgs = <<>> THEN [to |-> "IndexError", by |-> "raise"]
    ELSE IF approaching(limit, Len(msgs)) THEN [to |-> "END", by |-> "limit"]
    ELSE decide_no_limit(msgs, err)
decide_at(limit, msgs, err) ==
    IF msgs = <<>> THEN [to |-> "IndexError", by |-> "raise"]
    ELSE LET last_message == msgs[Len(msgs)]
             message_count == Len(msgs)
         IN  IF approaching(limit, message_count) /\ message_count >= limit
             THEN [to |-> "END", by |-> "limit"]
             ELSE IF err # "" THEN [to |-> "run_model", by |-> "error"]
             ELSE IF Completion(last_message).to = "END" THEN Completion(last_message)
             ELSE ToolsOrContinue(last_message)

decide(msgs, err) == decide_at(RECURSION_LIMIT, msgs, err)

decide_next_step(msgs, err) == decide(msgs, err).to


(***************************************************************************)
(* The driver's extraction of the final answer.                            *)
(***************************************************************************)
\* if final_message.startswith("Final Answer:"):
\*     final_message = final_message.replace("Final Answer:", "").strip()
CleanFinalAnswerNoStrip(final_message) ==
    IF StartsWith(final_message, FinalAnswerPrefix)
    THEN ReplaceAll(final_message, FinalAnswerPrefix)
    ELSE final_message
CleanFinalAnswer(final_message) ==
    IF StartsWith(final_message, FinalAnswerPrefix)
    THEN Strip(ReplaceAll(final_message, FinalAnswerPrefix))
    ELSE final_message

\* which except clause of run_klaro_langgraph reports an exception
HandlerOnlyTimeout(exc) ==
    IF exc = "TimeoutException" THEN "timeout" ELSE "unhandled"
HandlerOnlyError(exc) == "error"
Handler(exc) ==
    IF exc = "TimeoutException" THEN "timeout" ELSE "error"

(***************************************************************************)
(* Model stubs (the mocks of model.invoke).                                *)
(***************************************************************************)
StubModes == {"any", "scripted", "badtool", "final_first", "guided"}

\* the short markdown body of the scripted scenario: "# x\n## Setup\nx"
ScriptBody == <<"#", "x", "nl", "S", "nl", "x">>

Bodies == SeqsUpTo(Alphabet, MaxLen)

\* contents the unconstrained stub answers with
DocumentContents ==
    { <<"FA", ":", " ", "#", "x">>,      \* "Final Answer: #x"
      <<"fa", "x">>,                     \* "final answer x"
      <<"#", "L">>,                      \* a long markdown document
      <<"S", "x">> }                     \* "## Setup x"
AnyNames == {"list_files", "nonexistent_tool"}
\* the tool requests of one response: none, the same tool 1..MaxCalls times,
\* or two different tools in either order
AnyRequests ==
    {<<>>}
    \cup {[i \in 1..n |-> name] : n \in 1..MaxCalls, name \in AnyNames}
    \cup {<<a, b>> : a \in AnyNames, b \in AnyNames}

\* responses of the stub on its k-th invocation (k counted from 0):
\* the text and the names of the tools requested
StubResponses(mode, k, b) ==
    CASE mode = "scripted" ->
            IF k = 0 THEN {[content |-> <<"x">>, names |-> <<"list_files">>]}
            ELSE IF k = 1 THEN {[content |-> <<"x">>, names |-> <<"read_file">>]}
            ELSE {[content |-> FinalAnswerPrefix \o <<" ">> \o ScriptBody, names |-> <<>>]}
      [] mode = "badtool" ->
            {[content |-> <<"x">>, names |-> ns] :
                ns \in SeqsUpTo({"nonexistent_tool"}, MaxCalls) \ {<<>>}}
      [] mode = "guided" ->      \* fetches the style guide, then answers
            IF k = 0 THEN {[content |-> <<"x">>, names |-> <<"retrieve_knowledge">>]}
            ELSE {[content |-> FinalAnswerPrefix \o <<" ">> \o ScriptBody, names |-> <<>>]}
      [] mode = "final_first" ->
            {[content |-> FinalAnswerPrefix \o b, names |-> <<>>]}
      [] OTHER ->
            {[content |-> <<"x">>, names |-> ns] : ns \in AnyRequests}
            \cup {[content |-> <<>>, names |-> ns] : ns \in {<<>>, <<"list_files">>}}
            \cup {[content |-> c, names |-> <<>>] : c \in DocumentContents}
            \cup {[content |-> FinalAnswerPrefix, names |-> <<"list_files">>],
                  [content |-> <<"S", "x">>, names |-> <<"list_files">>]}

\* the gateway gives every tool request a fresh id
WithIds(names, first) ==
    [i \in 1..Len(names) |-> [id |-> first + i - 1, name |-> names[i]]]

Invocations(tr) == Cardinality({i \in 1..Len(tr) : tr[i] = "R"})

(***************************************************************************)
(* The session: run_klaro_langgraph -> run_with_timeout -> app.invoke.     *)
(***************************************************************************)
\* the driver's first statement that touches the session's state
DriverEntrySkipsInit == "run_with_timeout"
DriverEntry == "init_knowledge_base"

\* the one Document the driver indexes: the style guide
documents_to_index == <<"Klaro_Style_Guide">>

\* init_knowledge_base succeeds or fails (embedding, storing); the failure
\* is followed up for the stub that calls retrieve_knowledge, the only one
\* whose session reads the retriever
KnowledgeBaseOutcomes(mode) == IF mode = "guided" THEN {"ok", "failed"} ELSE {"ok"}

Init ==
    /\ messages = inputs
    /\ error_log = ""
    /\ node = "run_model"
    /\ trace = <<>>
    /\ stub \in StubModes
    /\ body \in (IF stub = "final_first" THEN Bodies ELSE {<<>>})
    /\ nextId = 1
    /\ worker = "unstarted"
    /\ report = "none"
    /\ artifact = <<>>
    /\ route = "none"
    /\ warned = FALSE
    /\ KLARO_RETRIEVER = "None"
    /\ init_calls = 0
    /\ driver = DriverEntry
    /\ arg = "none"
    /\ result = NoResult

\* STEP 4 of the driver: setup_result = init_knowledge_base(documents_to_index)
InitKnowledgeBase ==
    /\ driver = "init_knowledge_base"
    /\ \E o \in KnowledgeBaseOutcomes(stub) :
          KLARO_RETRIEVER' =
              init_knowledge_base(KLARO_RETRIEVER, documents_to_index, o).retriever
    /\ init_calls' = init_calls + 1
    /\ driver' = "run_with_timeout"
    /\ UNCHANGED << messages, error_log, node, trace, stub, body, nextId,
                    worker, report, artifact, route, warned, arg, result >>

\* run_with_timeout: thread.start(), then thread.join(timeout_seconds)
StartWorker ==
    /\ driver = "run_with_timeout"
    /\ worker = "unstarted"
    /\ worker' = "invoke"
    /\ driver' = "join"
    /\ UNCHANGED << messages, error_log, node, trace, stub, body, nextId,
                    report, artifact, route, warned,
                    KLARO_RETRIEVER, init_calls, arg, result >>

\* run_model's return value once model.invoke has answered:
\* {"messages": [response], "error_log": ""}
run_model_keeps_error(err, response) ==
    [messages |-> <<response>>, error_log |-> err]
run_model(err, response) ==
    [messages |-> <<response>>, error_log |-> ""]

\* workflow.add_edge("call_tool", "run_model"): the node after call_tool
CallToolEdgeRouted(msgs, err) ==
    IF decide(msgs, err).to = "END" THEN "END" ELSE "run_model"
CallToolEdge(msgs, err) == "run_model"

\* a run_model that would record the failure in error_log and return, so
\* that the router's error rule sends the loop back to the model
RunModelRecordsFailure ==
    /\ UNCHANGED outside_loop
    /\ worker = "invoke"
    /\ node = "run_model"
    /\ trace' = Append(trace, "R")
    /\ \/ \E r \in StubResponses(stub, Invocations(trace), body) :
             LET response == AIMessage(r.content, WithIds(r.names, nextId))
                 update == run_model(error_log, response)
                 d == decide(Reducer(messages, update.messages), update.error_log)
             IN  /\ messages' = Reducer(messages, update.messages)
                 /\ error_log' = update.error_log
                 /\ nextId' = nextId + Len(r.names)
                 /\ node' = d.to
                 /\ route' = d.to
                 /\ warned' = (warned \/ d.by = "heuristic")
       \/ /\ stub = "any"
          /\ error_log' = "LLM invocation failed"
          /\ node' = decide(messages, "LLM invocation failed").to
          /\ route' = decide(messages, "LLM invocation failed").to
          /\ UNCHANGED << messages, nextId, warned >>
    /\ UNCHANGED << stub, body, worker, report, artifact >>

\* node run_model, then the conditional edge decide_next_step
RunModel ==
    /\ UNCHANGED outside_loop
    /\ worker = "invoke"
    /\ node = "run_model"
    /\ trace' = Append(trace, "R")
    /\ \/ \E r \in StubResponses(stub, Invocations(trace), body) :
             LET response == AIMessage(r.content, WithIds(r.names, nextId))
                 update == run_model(error_log, response)
                 d == decide(Reducer(messages, update.messages), update.error_log)
             IN  /\ messages' = Reducer(messages, update.messages)
                 /\ error_log' = update.error_log
                 /\ nextId' = nextId + Len(r.names)
                 /\ node' = d.to
                 /\ route' = d.to
                 /\ warned' = (warned \/ d.by = "heuristic")
       \/ /\ stub = "any"          \* model.invoke raises; run_model re-raises
          /\ node' = "raised"
          /\ UNCHANGED << messages, error_log, nextId, route, warned >>
    /\ UNCHANGED << stub, body, worker, report, artifact >>

\* a requested tool has been running for TOOL_TIMEOUT seconds: no timer
\* watches it, ToolNode(tools) goes on waiting for its return value
ToolOverrun ==
    /\ UNCHANGED outside_loop
    /\ worker = "invoke"
    /\ node = "call_tool"
    /\ \E i \in 1..Len(messages[Len(messages)].tool_calls) :
          messages[Len(messages)].tool_calls[i].name \in tools
    /\ node' = "overrun"
    /\ UNCHANGED << messages, error_log, trace, stub, body, nextId, worker,
                    report, artifact, route, warned >>

\* node call_tool (ToolNode), then the fixed edge to run_model
CallTool ==
    /\ UNCHANGED outside_loop
    /\ worker = "invoke"
    /\ node \in {"call_tool", "overrun"}
    /\ trace' = Append(trace, "T")
    /\ \E out \in ToolNode(messages[Len(messages)].tool_calls) :
          IF out.raised
          THEN node' = "raised" /\ messages' = messages
          ELSE /\ messages' = Reducer(messages, out.update)
               /\ node' = CallToolEdge(Reducer(messages, out.update), error_log)
    /\ UNCHANGED << error_log, stub, body, nextId, worker, report, artifact,
                    route, warned >>

\* target(): func returned or raised; finalize_langsmith_trace() follows
WorkerReturn ==
    /\ UNCHANGED outside_loop
    /\ worker = "invoke"
    /\ node \in {"END", "raised"}
    /\ worker' = "finalize"
    /\ UNCHANGED << messages, error_log, node, trace, stub, body, nextId,
                    report, artifact, route, warned >>

\* the worker thread exits
WorkerExit ==
    /\ UNCHANGED outside_loop
    /\ worker = "finalize"
    /\ worker' = "dead"
    /\ UNCHANGED << messages, error_log, node, trace, stub, body, nextId,
                    report, artifact, route, warned >>

\* a caller that would read result[0] / exception[0] whenever the thread is dead
DriverJoinIgnoresDeadline ==
    /\ UNCHANGED outside_loop
    /\ driver = "join"
    /\ worker = "dead"
    /\ IF node = "raised"
       THEN report' = Handler("Exception") /\ artifact' = artifact
       ELSE /\ report' = "success"
            /\ artifact' = CleanFinalAnswer(messages[Len(messages)].content)
    /\ UNCHANGED << messages, error_log, node, trace, stub, body, nextId,
                    worker, route, warned >>
\* thread.join returned with the thread dead: result or re-raised exception
DriverJoin ==
    /\ UNCHANGED outside_loop
    /\ driver = "join"
    /\ report = "none"
    /\ worker = "dead"
    /\ IF node = "raised"
       THEN report' = Handler("Exception") /\ artifact' = artifact
       ELSE /\ report' = "success"
            /\ artifact' = CleanFinalAnswer(messages[Len(messages)].content)
    /\ UNCHANGED << messages, error_log, node, trace, stub, body, nextId,
                    worker, route, warned >>

\* thread.join(EXECUTION_TIMEOUT) returned with the thread still alive
DriverTimeout ==
    /\ UNCHANGED outside_loop
    /\ driver = "join"
    /\ report = "none"
    /\ worker # "dead"
    /\ report' = Handler("TimeoutException")
    /\ UNCHANGED << messages, error_log, node, trace, stub, body, nextId,
                    worker, artifact, route, warned >>

Next ==
    \/ InitKnowledgeBase
    \/ StartWorker
    \/ RunModel
    \/ ToolOverrun
    \/ CallTool
    \/ WorkerReturn
    \/ WorkerExit
    \/ DriverJoin
    \/ DriverTimeout

Spec == Init /\ [][Next]_vars

\* the driver runs its setup statements; the worker thread keeps running
\* while it has a step to take; the driver returns from join once the
\* thread is dead
SpecFair ==
    /\ Spec
    /\ WF_vars(InitKnowledgeBase \/ StartWorker)
    /\ WF_vars(RunModel \/ CallTool \/ WorkerReturn \/ WorkerExit)
    /\ WF_vars(DriverJoin)

(***************************************************************************)
(* The worker after the driver's wait has ended: the session in which     *)
(* EXECUTION_TIMEOUT elapses while the first model call is in flight.      *)
(***************************************************************************)
InitLate ==
    /\ messages = inputs
    /\ error_log = ""
    /\ node = "run_model"
    /\ trace = <<>>
    /\ stub \in StubModes
    /\ body \in (IF stub = "final_first" THEN Bodies ELSE {<<>>})
    /\ nextId = 1
    /\ worker = "invoke"
    /\ report = Handler("TimeoutException")
    /\ artifact = <<>>
    /\ route = "none"
    /\ warned = FALSE
    /\ KLARO_RETRIEVER \in
          {init_knowledge_base("None", documents_to_index, o).retriever :
              o \in KnowledgeBaseOutcomes(stub)}
    /\ init_calls = 1
    /\ driver = "join"
    /\ arg = "none"
    /\ result = NoResult

\* the daemon thread is all that is left running
NextLate ==
    \/ RunModel
    \/ ToolOverrun
    \/ CallTool
    \/ WorkerReturn
    \/ WorkerExit

SpecLate == InitLate /\ [][NextLate]_vars

(***************************************************************************)
(* The tools and helpers called on their own, as the unit tests do: `arg`  *)
(* is the argument (and what the environment will do), `result` the value  *)
(* returned.                                                               *)
(***************************************************************************)
\* MODEL_SELECTION_THRESHOLDS: max_lines of the small and the medium tier
SmallMaxLines == 10000
MediumMaxLines == 100000

\* select_model_by_project_size(metrics): the tier's model for the measured
\* line count, a missing count read as 0.  The models are named by tier;
\* which identifiers they are is configuration (KLARO_*_MODEL).
select_model_by_project_size(metrics) ==
    LET total_lines == IF "total_lines" \in DOMAIN metrics
                       THEN metrics.total_lines ELSE 0
    IN  IF total_lines < SmallMaxLines THEN "small_model"
        ELSE IF total_lines < MediumMaxLines THEN "medium_model"
        ELSE "large_model"

\* STEP 1 of the driver: the model the session is created with
selected_model_ignores_error(auto, metrics) ==
    IF auto THEN select_model_by_project_size(metrics) ELSE "LLM_MODEL"
selected_model(auto, metrics) ==
    IF auto
    THEN IF "error" \in DOMAIN metrics
         THEN "LLM_MODEL"
         ELSE select_model_by_project_size(metrics)
    ELSE "LLM_MODEL"

\* line counts around the thresholds
LineCounts == {0, 1, 5000, 9999, 10000, 10001, 50000, 99999, 100000, 100001, 150000}

\* analyze_project_size's answers: the metrics of a project, the metrics of
\* a failed measurement, and (unit test) a dict without a line count
Metrics ==
    {[total_lines |-> n, total_files |-> 1] : n \in LineCounts}
    \cup {[error |-> "Directory not found", total_lines |-> 0, total_files |-> 0]}
    \cup {[total_files |-> 1]}

SelectArgs ==
    {[fn |-> "selected_model", auto |-> a, metrics |-> m] :
        a \in BOOLEAN, m \in Metrics}

\* ChatOpenAI(max_retries=2)
max_retries == 2

\* model.invoke(messages): the client sends the request, and sends it again
\* after a failed attempt while retries are left; outcomes[n] is what the
\* n-th attempt would meet.  The value tells whether the call raised and
\* how many attempts were made.
RECURSIVE model_invoke_unbounded(_, _)
model_invoke_unbounded(outcomes, n) ==
    IF outcomes[n] = "ok" THEN [raised |-> FALSE, attempts |-> n]
    ELSE IF n < Len(outcomes) THEN model_invoke_unbounded(outcomes, n + 1)
    ELSE [raised |-> TRUE, attempts |-> n]
RECURSIVE model_invoke(_, _)
model_invoke(outcomes, n) ==
    IF outcomes[n] = "ok" THEN [raised |-> FALSE, attempts |-> n]
    ELSE IF n - 1 < max_retries THEN model_invoke(outcomes, n + 1)
    ELSE [raised |-> TRUE, attempts |-> n]

\* what the API would answer to each of max_retries + 2 successive attempts
InvokeArgs ==
    {[fn |-> "model.invoke", outcomes |-> o] :
        o \in [1..(max_retries + 2) -> {"ok", "fail"}]}

\* read_file(file_path): the file's whole text, or an error text
read_file_truncating(file) ==
    CASE file.kind = "missing" -> <<"Error:", "File path not found or is not a file">>
      [] file.kind = "directory" -> <<"Error:", "is a directory, not a file">>
      [] file.kind = "undecodable" -> <<"Error reading file:", "e">>
      [] OTHER -> IF TextLen(file.content) > SubstantialLen
                  THEN <<file.content[1], "[truncated]">>
                  ELSE file.content
read_file(file) ==
    CASE file.kind = "missing" -> <<"Error:", "File path not found or is not a file">>
      [] file.kind = "directory" -> <<"Error:", "is a directory, not a file">>
      [] file.kind = "undecodable" -> <<"Error reading file:", "e">>
      [] OTHER -> file.content

\* what a path may lead to: nothing, a directory, bytes that are not UTF-8,
\* or a text of up to MaxLen blocks ("L": 201 characters, "x": one)
Files ==
    {[kind |-> k, content |-> <<>>] : k \in {"missing", "directory", "undecodable"}}
    \cup {[kind |-> "text", content |-> c] : c \in SeqsUpTo({"L", "x", "nl"}, MaxLen)}

ReadArgs == {[fn |-> "read_file", file |-> f] : f \in Files}

RetrieveArgs ==
    {[fn |-> "retrieve_knowledge", outcome |-> o] : o \in RetrieverOutcomes}

\* init_knowledge_base(documents): no documents or the style guide, and
\* whether chunking, embedding and storing will succeed
InitKnowledgeBaseArgs ==
    {[fn |-> "init_knowledge_base", documents |-> d, outcome |-> o] :
        d \in {<<>>, documents_to_index}, o \in {"ok", "failed"}}

ToolArgs ==
    RetrieveArgs \cup SelectArgs \cup InvokeArgs \cup ReadArgs
    \cup InitKnowledgeBaseArgs

InitTools ==
    /\ arg \in ToolArgs
    /\ result = NoResult
    /\ KLARO_RETRIEVER \in
          CASE arg.fn = "retrieve_knowledge" -> {"None", "retriever"}
            [] arg.fn = "init_knowledge_base" -> {"None", "earlier_retriever"}
            [] OTHER -> {"None"}
    /\ init_calls = 0
    /\ driver = "none"
    /\ messages = <<>>
    /\ error_log = ""
    /\ node = "none"
    /\ trace = <<>>
    /\ stub = "none"
    /\ body = <<>>
    /\ nextId = 1
    /\ worker = "none"
    /\ report = "none"
    /\ artifact = <<>>
    /\ route = "none"
    /\ warned = FALSE

\* what a call in this section leaves alone
loop_state == << messages, error_log, node, trace, stub, body, nextId, worker,
                report, artifact, route, warned, init_calls, driver >>

\* result = retrieve_knowledge(query)
CallRetrieveKnowledge ==
    /\ arg.fn = "retrieve_knowledge"
    /\ ~result.returned
    /\ result' = Returned(retrieve_knowledge(KLARO_RETRIEVER, arg.outcome))
    /\ UNCHANGED << arg, KLARO_RETRIEVER, loop_state >>

\* result = init_knowledge_base(documents)
CallInitKnowledgeBase ==
    /\ arg.fn = "init_knowledge_base"
    /\ ~result.returned
    /\ LET out == init_knowledge_base(KLARO_RETRIEVER, arg.documents, arg.outcome)
       IN  /\ KLARO_RETRIEVER' = out.retriever
           /\ result' = Returned(out.text)
    /\ UNCHANGED << arg, loop_state >>

\* the driver's selection, AUTO_MODEL_SELECTION being arg.auto
CallSelectedModel ==
    /\ arg.fn = "selected_model"
    /\ ~result.returned
    /\ result' = Returned(selected_model(arg.auto, arg.metrics))
    /\ UNCHANGED << arg, KLARO_RETRIEVER, loop_state >>

\* response = model.invoke(state["messages"]) inside run_model
CallModelInvoke ==
    /\ arg.fn = "model.invoke"
    /\ ~result.returned
    /\ result' = Returned(model_invoke(arg.outcomes, 1))
    /\ UNCHANGED << arg, KLARO_RETRIEVER, loop_state >>

\* content = read_file(file_path)
CallReadFile ==
    /\ arg.fn = "read_file"
    /\ ~result.returned
    /\ result' = Returned(read_file(arg.file))
    /\ UNCHANGED << arg, KLARO_RETRIEVER, loop_state >>

NextTools ==
    \/ CallInitKnowledgeBase
    \/ CallRetrieveKnowledge
    \/ CallSelectedModel
    \/ CallModelInvoke
    \/ CallReadFile

SpecTools == InitTools /\ [][NextTools]_vars

(***************************************************************************)
(* decide_next_step called on a crafted state, as the unit tests do.       *)
(***************************************************************************)
RouterTexts == SeqsUpTo(RouterAlphabet, MaxLen)

\* tool requests of a crafted last message: 0..MaxCalls requests
RouterCalls == {WithIds(ns, 1) : ns \in SeqsUpTo({"read_file"}, MaxCalls)}

\* a history of n earlier messages: the task, then thoughts
Earlier(n) == [i \in 1..n |-> IF i = 1 THEN inputs[1] ELSE AIMessage(<<"x">>, <<>>)]

RouterCounts == {1, 2, RECURSION_LIMIT - 1, RECURSION_LIMIT, RECURSION_LIMIT + 1}

CraftedLast ==
    {AIMessage(c, calls) : c \in RouterTexts, calls \in RouterCalls}
    \cup {HumanMessage(c) : c \in {<<>>, <<"x">>, <<"FA", "x">>}}
    \cup {ToolMessage(c, 1) : c \in {<<>>, <<"x">>, <<"FA", "x">>}}

InitRouter ==
    /\ messages \in {<<>>} \cup
          {Earlier(n - 1) \o <<m>> : n \in RouterCounts, m \in CraftedLast}
    /\ error_log \in {"", "File not found error"}
    /\ node = "crafted"
    /\ trace = <<>>
    /\ stub = "none"
    /\ body = <<>>
    /\ nextId = 1
    /\ worker = "none"
    /\ report = "none"
    /\ artifact = <<>>
    /\ route = "none"
    /\ warned = FALSE
    /\ KLARO_RETRIEVER = "None"
    /\ init_calls = 0
    /\ driver = "none"
    /\ arg = "none"
    /\ result = NoResult

\* result = decide_next_step(state)
Decide ==
    /\ UNCHANGED outside_loop
    /\ node = "crafted"
    /\ route = "none"
    /\ route' = decide_next_step(messages, error_log)
    /\ warned' = (decide(messages, error_log).by = "heuristic")
    /\ UNCHANGED << messages, error_log, node, trace, stub, body, nextId,
                    worker, report, artifact >>

NextRouter == Decide

SpecRouter == InitRouter /\ [][NextRouter]_vars

(***************************************************************************)
(* decide_next_step around the limit, under the limit the model is scaled  *)
(* to and under the default one: `arg` holds the configured limit.         *)
(***************************************************************************)
\* os.getenv("KLARO_RECURSION_LIMIT", "50")
DefaultRecursionLimit == 50

ConfiguredLimits == {RECURSION_LIMIT, DefaultRecursionLimit}

\* message counts far from the limit and on either side of it
NearCounts(limit) == {1, 2, limit - 3, limit - 2, limit - 1, limit, limit + 1}

NearLast ==
    {AIMessage(c, calls) :
        c \in {<<>>, <<"x">>, <<"fa", "x">>, <<"#", "L">>, <<"S", "x">>},
        calls \in RouterCalls}
    \cup {ToolMessage(c, 1) : c \in {<<>>, <<"x">>, <<"FA", "x">>}}

InitNearLimit ==
    /\ arg \in {[fn |-> "decide_next_step", RECURSION_LIMIT |-> l] :
                    l \in ConfiguredLimits}
    /\ messages \in {Earlier(n - 1) \o <<m>> : n \in NearCounts(arg.RECURSION_LIMIT),
                                                m \in NearLast}
    /\ error_log \in {"", "File not found error"}
    /\ node = "crafted"
    /\ trace = <<>>
    /\ stub = "none"
    /\ body = <<>>
    /\ nextId = 1
    /\ worker = "none"
    /\ report = "none"
    /\ artifact = <<>>
    /\ route = "none"
    /\ warned = FALSE
    /\ KLARO_RETRIEVER = "None"
    /\ init_calls = 0
    /\ driver = "none"
    /\ result = NoResult

\* result = decide_next_step(state) with RECURSION_LIMIT as configured
DecideNearLimit ==
    /\ node = "crafted"
    /\ route = "none"
    /\ route' = decide_at(arg.RECURSION_LIMIT, messages, error_log).to
    /\ warned' = (decide_at(arg.RECURSION_LIMIT, messages, error_log).by = "heuristic")
    /\ UNCHANGED << messages, error_log, node, trace, stub, body, nextId,
                    worker, report, artifact, outside_loop >>

NextNearLimit == DecideNearLimit

SpecNearLimit == InitNearLimit /\ [][NextNearLimit]_vars

(***************************************************************************)
(* The conditional edge after run_model followed from a crafted state, and *)
(* the call_tool node where the edge leads to it.                          *)
(***************************************************************************)
InitEdge ==
    /\ messages \in {Earlier(n - 1) \o <<m>> : n \in RouterCounts, m \in NearLast}
    /\ error_log \in {"", "File not found error"}
    /\ node = "decide_next_step"
    /\ trace = <<>>
    /\ stub = "none"
    /\ body = <<>>
    /\ nextId = 1 + MaxCalls
    /\ worker = "invoke"
    /\ report = "none"
    /\ artifact = <<>>
    /\ route = "none"
    /\ warned = FALSE
    /\ KLARO_RETRIEVER = "None"
    /\ init_calls = 1
    /\ driver = "join"
    /\ arg = "none"
    /\ result = NoResult

\* add_conditional_edges("run_model", decide_next_step, {...}): the graph
\* moves to the node the router names; an exception in the router ends the
\* invocation
FollowEdge ==
    /\ node = "decide_next_step"
    /\ LET d == decide(messages, error_log)
       IN  /\ route' = d.to
           /\ node' = IF d.by = "raise" THEN "raised" ELSE d.to
           /\ warned' = (d.by = "heuristic")
    /\ UNCHANGED << messages, error_log, trace, stub, body, nextId, worker,
                    report, artifact, outside_loop >>

NextEdge ==
    \/ FollowEdge
    \/ ToolOverrun
    \/ CallTool

SpecEdge == InitEdge /\ [][NextEdge]_vars

(***************************************************************************)
(* run_model applied once to a crafted state, as the unit tests do: the    *)
(* state may hold an error_log left by an earlier step.                    *)
(***************************************************************************)
CraftedErrors == {"no_error", "with_error"}

\* the histories run_model is handed: the task alone or a grown history
CraftedHistories ==
    {Earlier(n) : n \in 1..MaxLen}
    \cup {Earlier(n) \o <<AIMessage(<<>>, WithIds(<<"read_file">>, 1)),
                          ToolMessage(<<"Error:", "read_file", "raised">>, 1)>>
            : n \in 1..MaxLen}

InitRunModel ==
    /\ stub \in CraftedErrors
    /\ messages \in CraftedHistories
    /\ error_log = IF stub = "with_error" THEN "Previous error occurred" ELSE ""
    /\ node = "crafted"
    /\ trace = <<>>
    /\ body = <<>>
    /\ nextId = 2
    /\ worker = "none"
    /\ report = "none"
    /\ artifact = <<>>
    /\ route = "none"
    /\ warned = FALSE
    /\ KLARO_RETRIEVER = "None"
    /\ init_calls = 0
    /\ driver = "none"
    /\ arg = "none"
    /\ result = NoResult

\* result = run_model(state), merged into the state by the graph's reducers
RunModelOnce ==
    /\ UNCHANGED outside_loop
    /\ node = "crafted"
    /\ trace' = Append(trace, "R")
    /\ \/ \E c \in RouterTexts, ns \in SeqsUpTo({"read_file"}, MaxCalls) :
             LET response == AIMessage(c, WithIds(ns, nextId))
                 update == run_model(error_log, response)
             IN  /\ messages' = Reducer(messages, update.messages)
                 /\ error_log' = update.error_log
                 /\ nextId' = nextId + Len(ns)
                 /\ node' = "returned"
       \/ /\ node' = "raised"      \* model.invoke raised: logged, re-raised
          /\ UNCHANGED << messages, error_log, nextId >>
    /\ UNCHANGED << stub, body, worker, report, artifact, route, warned >>

NextRunModel == RunModelOnce

SpecRunModel == InitRunModel /\ [][NextRunModel]_vars

(***************************************************************************)
(* Properties.                                                             *)
(***************************************************************************)
LastMessage == messages[Len(messages)]

\* C1, as stated: whenever error_log is non-empty, decide_next_step returns
\* "run_model", whatever the latest message holds.
C1_ErrorAlwaysRunModel ==
    (route # "none" /\ messages # <<>> /\ error_log # "") => route = "run_model"

\* C1, amended: whenever error_log is non-empty and the message count is
\* below RECURSION_LIMIT, decide_next_step returns "run_model", whatever the
\* latest message holds (sentinel, tool requests or both).
C1_ErrorPriorityBelowLimit ==
    (route # "none" /\ messages # <<>> /\ error_log # ""
        /\ Len(messages) < RECURSION_LIMIT) => route = "run_model"

\* C1's case: an error together with a sentinel and tool requests
C1_Witness ==
    /\ route = "run_model"
    /\ error_log # ""
    /\ messages # <<>>
    /\ ContainsFinalAnswer(LastMessage.content)
    /\ LastMessage.tool_calls # <<>>

\* C2: the number of node executions (run_model plus call_tool) of one
\* session never exceeds RECURSION_LIMIT, whatever the stub answers.
C2_StepsWithinLimit == Len(trace) <= RECURSION_LIMIT

\* C2's case: a session without any sentinel that stopped at the bound
C2_Witness ==
    /\ node = "END"
    /\ Len(trace) = RECURSION_LIMIT
    /\ \A i \in 1..Len(messages) : ~ContainsFinalAnswer(messages[i].content)

\* C3, as stated: when the first response is "Final Answer:" followed by a
\* body B, the artifact the driver prints is exactly B, for every body B.
C3_RoundTripExact ==
    (stub = "final_first" /\ report = "success") => artifact = body

\* C3, amended: the artifact is B with every further occurrence of
\* "Final Answer:" removed and leading and trailing whitespace trimmed; it
\* is exactly B when B neither contains "Final Answer:" nor begins or ends
\* with whitespace.
C3_RoundTripCleaned ==
    (stub = "final_first" /\ report = "success") =>
        /\ artifact = Strip(ReplaceAll(body, FinalAnswerPrefix))
        /\ ( (/\ \A i \in 1..(Len(body) - 1) : ~(body[i] = "FA" /\ body[i + 1] = ":")
              /\ (body # <<>> => ~IsSpace(body[1]) /\ ~IsSpace(body[Len(body)])))
             => artifact = body )

\* C3's case: a body with leading whitespace and an inner "Final Answer:"
C3_Witness ==
    /\ stub = "final_first"
    /\ report = "success"
    /\ Len(body) >= 3
    /\ IsSpace(body[1])
    /\ \E i \in 1..(Len(body) - 1) : body[i] = "FA" /\ body[i + 1] = ":"
    /\ artifact # body

IsCallToolStep == node \in {"call_tool", "overrun"} /\ trace' = Append(trace, "T")

IsInvalidToolError(m, call) ==
    /\ m.role = "tool"
    /\ m.content = <<"Error:", call.name, "is not a valid tool">>

\* C5: a call_tool step whose requests name a tool that is not registered
\* does not raise: it appends, for each such request, an observation that
\* is an error text naming the tool, and the loop goes on to run_model.
C5_UnknownToolIsObservation ==
    [][ (IsCallToolStep /\ \E i \in 1..Len(LastMessage.tool_calls) :
                               LastMessage.tool_calls[i].name \notin tools)
        => /\ node' = "run_model"
           /\ Len(messages') = Len(messages) + Len(LastMessage.tool_calls)
           /\ \A i \in 1..Len(LastMessage.tool_calls) :
                 LastMessage.tool_calls[i].name \notin tools
                 => IsInvalidToolError(messages'[Len(messages) + i],
                                       LastMessage.tool_calls[i]) ]_vars

\* C5's case: the model was invoked again after an invalid-tool observation
C5_Witness ==
    \E i \in 1..(Len(messages) - 1) :
        /\ messages[i].role = "tool"
        /\ messages[i].content = <<"Error:", "nonexistent_tool", "is not a valid tool">>
        /\ messages[i + 1].role = "ai"

\* C6: when the stub always requests a nonexistent tool, the loop
\* eventually terminates (END), with the message count at the cap.
C6_BadToolTerminates ==
    (stub = "badtool") ~> (node = "END" /\ Len(messages) >= RECURSION_LIMIT)

\* C6's case: the loop ended although every tool step failed
C6_Witness ==
    /\ stub = "badtool"
    /\ node = "END"
    /\ \E i \in 1..Len(messages) : messages[i].role = "tool"
    /\ \A i \in 1..Len(messages) :
          messages[i].role = "tool" => messages[i].content[1] = "Error:"

\* C7: a failure raised inside the loop ends the session in a reported
\* outcome (the error notice, or the timeout notice when the deadline came
\* first); no exception leaves run_klaro_langgraph.
C7_FailureIsReported ==
    /\ report \in {"none", "success", "timeout", "error"}
    /\ (node = "raised" /\ report # "none") => report \in {"error", "timeout"}

\* C7's case: the model call raised and the driver printed the error notice
C7_Witness == node = "raised" /\ worker = "dead" /\ report = "error"

\* C8: a call_tool step appends exactly one observation per request of the
\* latest response, the i-th observation answering the i-th request.
C8_ObservationsInRequestOrder ==
    [][ IsCallToolStep
        => /\ Len(messages') = Len(messages) + Len(LastMessage.tool_calls)
           /\ SubSeq(messages', 1, Len(messages)) = messages
           /\ \A i \in 1..Len(LastMessage.tool_calls) :
                 LET obs == messages'[Len(messages) + i]
                     call == LastMessage.tool_calls[i]
                 IN  /\ obs.role = "tool"
                     /\ obs.tool_call_id = call.id
                     /\ obs \in Observations(call) ]_vars

\* C8's case: two requests for different tools were answered
C8_Witness ==
    /\ Len(messages) >= 4
    /\ messages[Len(messages)].role = "tool"
    /\ messages[Len(messages) - 1].role = "tool"
    /\ messages[Len(messages) - 2].role = "ai"
    /\ messages[Len(messages) - 2].tool_calls[1].name
          # messages[Len(messages) - 2].tool_calls[2].name

IsPrefix(s, t) == Len(s) <= Len(t) /\ SubSeq(t, 1, Len(s)) = s

\* C9: every step leaves the old history a prefix of the new one.
C9_AppendOnly == [][IsPrefix(messages, messages')]_vars

\* C9's case: a history grown by both nodes
C9_Witness ==
    /\ Len(messages) >= 5
    /\ \E i \in 1..Len(messages) : messages[i].role = "tool"
    /\ LastMessage.role = "ai"

\* the requests with correlation id `id` among the first n messages
RequestsBefore(id, n) ==
    {<<j, k>> \in (1..n) \X (1..MaxCalls + 1) :
        /\ k <= Len(messages[j].tool_calls)
        /\ messages[j].tool_calls[k].id = id}

\* C10: every tool observation is preceded by exactly one tool request
\* with its correlation id, and no two observations carry the same id.
C10_ObservationAnswersOneRequest ==
    /\ \A p \in 1..Len(messages) :
          messages[p].role = "tool"
          => Cardinality(RequestsBefore(messages[p].tool_call_id, p - 1)) = 1
    /\ \A p, q \in 1..Len(messages) :
          (p # q /\ messages[p].role = "tool" /\ messages[q].role = "tool")
          => messages[p].tool_call_id # messages[q].tool_call_id

\* C10's case: several observations, answering requests of several responses
C10_Witness ==
    /\ Cardinality({p \in 1..Len(messages) : messages[p].role = "tool"}) >= 3
    /\ Cardinality({p \in 1..Len(messages) : messages[p].tool_calls # <<>>}) >= 2

\* C11: the loop starts in run_model with a history holding exactly the
\* seeded task message and an empty error_log; in every reachable state
\* the history is non-empty and its first message is that task message.
C11_SeededTaskStaysFirst ==
    /\ trace = <<>> => (node = "run_model" /\ messages = inputs /\ error_log = "")
    /\ Len(inputs) = 1
    /\ messages # <<>>
    /\ messages[1] = HumanMessage(initial_message_content)

\* C11's case: a history grown by model responses and tool observations
C11_Witness ==
    /\ node = "END"
    /\ Len(messages) >= 4
    /\ messages[1] = HumanMessage(initial_message_content)
    /\ \E i \in 2..Len(messages) : messages[i].role = "tool"

\* the sentinel phrase, in any letter case, occurs in the text
HasSentinel(content) == \E i \in 1..Len(content) : content[i] \in {"FA", "fa"}

\* C12: with an empty error_log and fewer than RECURSION_LIMIT messages, a
\* latest response whose text contains the completion sentinel routes to
\* END, whether or not it also carries tool requests.
C12_SentinelEnds ==
    (/\ route # "none"
     /\ error_log = ""
     /\ messages # <<>>
     /\ Len(messages) < RECURSION_LIMIT
     /\ HasSentinel(LastMessage.content))
    => route = "END"

\* C12's case: the sentinel in a short response that also requests a tool
\* and does not look like a finished document
C12_Witness ==
    /\ route = "END"
    /\ error_log = ""
    /\ Len(messages) < RECURSION_LIMIT
    /\ LastMessage.role = "ai"
    /\ HasSentinel(LastMessage.content)
    /\ LastMessage.tool_calls # <<>>
    /\ ~HeuristicComplete(LastMessage.content)

\* the routing decision reaches the tool-call rule: no error, below the
\* limit, and the latest model response shows no completion
NoCompletionBelowLimit ==
    /\ route # "none"
    /\ error_log = ""
    /\ messages # <<>>
    /\ Len(messages) < RECURSION_LIMIT
    /\ LastMessage.role = "ai"
    /\ ~HasSentinel(LastMessage.content)
    /\ ~HeuristicComplete(LastMessage.content)

\* C13: with an empty error_log, fewer than RECURSION_LIMIT messages and
\* no completion detected, a latest model response carrying one or more
\* tool requests routes to "call_tool".
C13_ToolRequestsCallTool ==
    (NoCompletionBelowLimit /\ LastMessage.tool_calls # <<>>)
    => route = "call_tool"

\* C13's case: a response with text and several tool requests
C13_Witness ==
    /\ NoCompletionBelowLimit
    /\ Len(LastMessage.tool_calls) >= 2
    /\ LastMessage.content # <<>>
    /\ route = "call_tool"

\* C14: with an empty error_log, fewer than RECURSION_LIMIT messages, no
\* completion (explicit or heuristic) and no tool requests in the latest
\* model response, the routing result is "run_model".
C14_ThoughtContinues ==
    (NoCompletionBelowLimit /\ LastMessage.tool_calls = <<>>)
    => route = "run_model"

\* C14's case: a long thought with a header-less text and no requests
C14_Witness ==
    /\ NoCompletionBelowLimit
    /\ LastMessage.tool_calls = <<>>
    /\ \E i \in 1..Len(LastMessage.content) : LastMessage.content[i] = "L"
    /\ ~warned
    /\ route = "run_model"

\* C15: every call_tool step that returns is followed by run_model,
\* whatever the observations say and however long the history has grown.
C15_CallToolThenRunModel ==
    [][(IsCallToolStep /\ node' # "raised") => node' = "run_model"]_vars

\* C15's case: run_model is next after failed tool calls that pushed the
\* history to RECURSION_LIMIT messages or beyond
C15_Witness ==
    /\ node = "run_model"
    /\ LastMessage.role = "tool"
    /\ LastMessage.content[1] = "Error:"
    /\ Len(messages) >= RECURSION_LIMIT

\* a run_model step that returned a response
IsRunModelReturn == trace' = Append(trace, "R") /\ node' # "raised"

\* C16: every run_model step that returns appends exactly one message,
\* the model's response, and leaves error_log empty, whatever error_log
\* held before the step.
C16_RunModelAppendsOneAndClears ==
    [][IsRunModelReturn =>
          /\ Len(messages') = Len(messages) + 1
          /\ IsPrefix(messages, messages')
          /\ messages'[Len(messages')].role = "ai"
          /\ error_log' = ""]_vars

\* C16's case: run_model has returned on a state crafted with an error
C16_Witness ==
    /\ stub = "with_error"
    /\ node = "returned"
    /\ error_log = ""
    /\ LastMessage.role = "ai"
    /\ LastMessage.tool_calls # <<>>

\* C17, as stated: after a call_tool step whose tool failed, and after a
\* model invocation that failed, error_log holds a non-empty description.
C17_FailureSetsErrorLog ==
    /\ (/\ node = "run_model"
        /\ LastMessage.role = "tool"
        /\ LastMessage.content[1] = "Error:") => error_log # ""
    /\ node = "raised" => error_log # ""

\* the loop was stopped by the router's limit rule
StoppedByLimit == node = "END" /\ Len(messages) >= RECURSION_LIMIT

\* C18, as stated: a session whose loop was stopped by the iteration limit
\* is reported with an outcome of its own, which is none of the success,
\* timeout and failure notices.
C18_LimitStopReportedDistinctly ==
    (StoppedByLimit /\ report \notin {"none", "timeout"})
    => report \notin {"success", "error"}

\* C19, as stated: the history never holds more than RECURSION_LIMIT
\* messages.
C19_CountWithinLimit == Len(messages) <= RECURSION_LIMIT

\* the largest number of tool requests one response of the history carries
RECURSIVE MaxRequests(_)
MaxRequests(msgs) ==
    IF msgs = <<>> THEN 0
    ELSE LET rest == MaxRequests(Tail(msgs))
             here == Len(Head(msgs).tool_calls)
         IN  IF here > rest THEN here ELSE rest

\* C19, amended: nodes run only while the router saw fewer than
\* RECURSION_LIMIT messages, so the history exceeds RECURSION_LIMIT by at
\* most the largest number of tool requests one response carried, and a
\* history without tool requests never exceeds it.
C19_CountWithinLimitPlusRequests ==
    /\ Len(messages) <= RECURSION_LIMIT + MaxRequests(messages)
    /\ node \in {"call_tool", "overrun"} => Len(messages) < RECURSION_LIMIT

\* C19's case: the router let a response with the most tool requests
\* through just below the limit, and the loop ended far above it
C19_Witness ==
    /\ node = "END"
    /\ Len(messages) = RECURSION_LIMIT + MaxCalls
    /\ Len(messages) = RECURSION_LIMIT + MaxRequests(messages)

\* the worker thread can take a step
WorkerCanStep == ENABLED (RunModel \/ CallTool \/ WorkerReturn \/ WorkerExit)

\* C20: the loop runs on a worker thread; when the driver's wait ends with
\* the worker still alive the outcome is the timeout notice, neither
\* success nor the generic error, the wait does not stop the worker, and
\* the worker can go on stepping after the notice.
C20_DeadlineReportsTimeout ==
    /\ [][(report = "none" /\ report' # "none" /\ worker # "dead")
            => (/\ report' = "timeout"
                /\ UNCHANGED << worker, node, messages >>)]_vars
    /\ []((report = "timeout" /\ worker # "dead") => WorkerCanStep)

\* C20's case: the timeout notice is out while the worker is in the middle
\* of the loop, about to call tools
C20_Witness ==
    /\ report = "timeout"
    /\ worker = "invoke"
    /\ node = "call_tool"
    /\ Len(messages) >= 4

\* the router ended the loop through one of its two completion checks
EndedByCompletion ==
    /\ route = "END"
    /\ error_log = ""
    /\ messages # <<>>
    /\ Len(messages) < RECURSION_LIMIT

C28_WarningOnlyOnHeuristicEnd ==
    route # "none"
    => (warned <=> (EndedByCompletion /\ ~HasSentinel(LastMessage.content)))

\* C28's case: the sentinel in a text that also looks like a finished
\* document ends the loop without the warning
C28_Witness ==
    /\ EndedByCompletion
    /\ HasSentinel(LastMessage.content)
    /\ has_markdown_header(LastMessage.content)
    /\ has_setup_section(LastMessage.content)
    /\ ~warned

\* the messages a step appended
Appended == SubSeq(messages', Len(messages) + 1, Len(messages'))

\* C22, as stated: a call_tool step whose tool raised, or was still running
\* after TOOL_TIMEOUT, appends an error-text observation for it, does not
\* raise, and hands over to run_model.
C22_ToolFailureBecomesObservation ==
    [][IsCallToolStep =>
          /\ node' = "run_model"
          /\ Len(Appended) = Len(LastMessage.tool_calls)
          /\ node = "overrun" =>
                \E i \in 1..Len(Appended) : Appended[i].content[1] = "Error:"]_vars

\* the text of the latest model response, empty when there is none
RECURSIVE LastModelText(_)
LastModelText(msgs) ==
    IF msgs = <<>> THEN <<>>
    ELSE IF msgs[Len(msgs)].role = "ai" THEN msgs[Len(msgs)].content
    ELSE LastModelText(SubSeq(msgs, 1, Len(msgs) - 1))

\* C21, as stated: when the driver reports a session that ended by the
\* timeout or by the iteration limit, it does not report success and it
\* outputs the text of the last model response.
C21_AbortedOutputsPartialText ==
    [][(/\ report = "none"
        /\ report' # "none"
        /\ (report' = "timeout" \/ StoppedByLimit))
       => (report' # "success" /\ artifact' = LastModelText(messages))]_vars

\* C23, as stated: once the deadline has passed, the step in flight may
\* finish and no further run_model or call_tool step starts.
C23_NoStepAfterStepInFlight == Len(trace) <= 1

\* the loop has a node to run
LoopAtNode == worker = "invoke" /\ node \in {"run_model", "call_tool", "overrun"}

\* C23, amended: nothing tells the worker that the deadline has passed; it
\* starts run_model and call_tool steps as it would without a deadline and
\* stops only when the router ends the loop on the history or a node raises.
C23_WorkerIgnoresDeadline ==
    /\ LoopAtNode => ENABLED (RunModel \/ CallTool)
    /\ node = "END" =>
          \/ Len(messages) >= RECURSION_LIMIT
          \/ Completion(LastMessage).to = "END"
    /\ worker # "invoke" => node \in {"END", "raised"}

\* C23's case: several steps after the deadline, and another about to start
C23_Witness ==
    /\ report = "timeout"
    /\ Len(trace) >= 3
    /\ LoopAtNode
    /\ node = "call_tool"

\* a model response of the history requests retrieve_knowledge
RetrievalRequested ==
    \E i \in 1..Len(messages) : \E k \in 1..Len(messages[i].tool_calls) :
        messages[i].tool_calls[k].name = "retrieve_knowledge"

\* C24: in every session init_knowledge_base is called exactly once, and
\* the call has returned before the worker thread starts the loop, hence
\* before the first node runs and before any retrieve_knowledge request.
C24_KnowledgeBaseInitializedOnceBeforeLoop ==
    /\ init_calls <= 1
    /\ worker # "unstarted" => init_calls = 1
    /\ (trace # <<>> \/ RetrievalRequested) => init_calls = 1
    /\ worker = "unstarted" => (trace = <<>> /\ messages = inputs)

\* C24's case: retrieve_knowledge has been called and has answered from the
\* retriever the one initialization set
C24_Witness ==
    /\ init_calls = 1
    /\ RetrievalRequested
    /\ LastMessage.role = "tool"
    /\ LastMessage.content[1] = "Retrieved Information:"
    /\ Len(LastMessage.content) > 2

\* the symbols of a text that belong to S, in their order
Only(text, S) == SelectSeq(text, LAMBDA c : c \in S)

\* C25: retrieve_knowledge returns a text in every case: the "not
\* initialized" error when the retriever is unset, an error text when the
\* retrieval raised, and otherwise the chunks found, each under its own
\* "Source i" label, in the order the retriever delivered them.
C25_RetrieveKnowledgeReturnsText ==
    (arg.fn = "retrieve_knowledge" /\ result.returned)
    => IF KLARO_RETRIEVER = "None"
       THEN result.value = <<"Error:", "Knowledge base not initialized.">>
       ELSE IF arg.outcome.raised
       THEN result.value[1] = "Error retrieving knowledge:"
       ELSE /\ result.value[1] = "Retrieved Information:"
            /\ Only(result.value, Chunks) = arg.outcome.docs
            /\ Only(result.value, {Digits[i] : i \in 1..TopK})
                  = SubSeq(Digits, 1, Len(arg.outcome.docs))
            /\ \A i \in 1..Len(result.value) :
                  result.value[i] \in Chunks
                  => result.value[i - 2] \in {Digits[k] : k \in 1..TopK}

\* C25's case: three chunks found, two of them different, returned in order
C25_Witness ==
    /\ arg.fn = "retrieve_knowledge"
    /\ result.returned
    /\ KLARO_RETRIEVER = "retriever"
    /\ Only(result.value, Chunks) = <<"chunkB", "chunkA", "chunkB">>

\* C26: the model selected is a function of the measured line count alone:
\* below 10000 lines the small model, from 10000 to 99999 the medium one,
\* from 100000 the large one, a missing count read as 0; a measurement
\* that reports an error, or auto-selection switched off, gives the
\* default model.
C26_ModelSelectedBySize ==
    (arg.fn = "selected_model" /\ result.returned)
    => LET m == arg.metrics
           lines == IF "total_lines" \in DOMAIN m THEN m.total_lines ELSE 0
       IN  IF ~arg.auto \/ "error" \in DOMAIN m THEN result.value = "LLM_MODEL"
           ELSE /\ lines < 10000 => result.value = "small_model"
                /\ (10000 <= lines /\ lines <= 99999) => result.value = "medium_model"
                /\ lines >= 100000 => result.value = "large_model"

\* C26's case: a project of exactly 100000 lines gets the large model
C26_Witness ==
    /\ arg.fn = "selected_model"
    /\ arg.auto
    /\ "total_lines" \in DOMAIN arg.metrics
    /\ "error" \notin DOMAIN arg.metrics
    /\ arg.metrics.total_lines = 100000
    /\ result.value = "large_model"

\* the first n attempts all fail
AllFail(outcomes, n) == \A k \in 1..n : outcomes[k] = "fail"

\* C29: a model call makes at most 1 + 2 attempts (the call and two
\* retries); it raises exactly when all of them failed, after the third
\* attempt, and otherwise returns at the first attempt that succeeds.
C29_ModelCallRetriesAreBounded ==
    (arg.fn = "model.invoke" /\ result.returned)
    => /\ result.value.attempts <= 1 + 2
       /\ result.value.raised <=> AllFail(arg.outcomes, 1 + 2)
       /\ result.value.raised => result.value.attempts = 1 + 2
       /\ ~result.value.raised =>
             /\ arg.outcomes[result.value.attempts] = "ok"
             /\ AllFail(arg.outcomes, result.value.attempts - 1)

\* C29's case: a model that fails for good makes the call raise after the
\* second retry
C29_Witness ==
    /\ arg.fn = "model.invoke"
    /\ result.returned
    /\ AllFail(arg.outcomes, Len(arg.outcomes))
    /\ result.value.raised
    /\ result.value.attempts = 3

\* C30, as stated: read_file does not return the complete text of a long
\* file (here the longest the model reads, MaxLen blocks of 201
\* characters): it returns a truncated text.
C30_LongFileIsTruncated ==
    (/\ arg.fn = "read_file"
     /\ result.returned
     /\ arg.file.kind = "text"
     /\ arg.file.content = [i \in 1..MaxLen |-> "L"])
    => /\ result.value # arg.file.content
       /\ TextLen(result.value) < TextLen(arg.file.content)

\* C30, amended: read_file returns the complete text of a file whatever its
\* length, with nothing cut and nothing added; only a missing path, a
\* directory or an unreadable file give an error text instead.
C30_ReadFileReturnsWholeText ==
    (arg.fn = "read_file" /\ result.returned)
    => IF arg.file.kind = "text"
       THEN result.value = arg.file.content
       ELSE result.value # <<>> /\ result.value[1] \in {"Error:", "Error reading file:"}

\* C30's case: the longest file is returned whole
C30_Witness ==
    /\ arg.fn = "read_file"
    /\ result.returned
    /\ arg.file.kind = "text"
    /\ TextLen(arg.file.content) > 2 * SubstantialLen
    /\ result.value = arg.file.content

CompletionDetected(m) ==
    m.content # <<>> /\ (ContainsFinalAnswer(m.content) \/ HeuristicComplete(m.content))

\* C32: below the limit the rules apply in the order error-recovery >
\* completion > tool-call > continue; a model response carrying both a
\* detected completion and tool requests ends the loop and no call_tool
\* step runs on it.
C32_RulesInPriorityOrder ==
    [][ /\ (node = "decide_next_step" /\ LastMessage.role = "ai"
              /\ Len(messages) < RECURSION_LIMIT)
            => route' = IF error_log # "" THEN "run_model"
                        ELSE IF CompletionDetected(LastMessage) THEN "END"
                        ELSE IF LastMessage.tool_calls # <<>> THEN "call_tool"
                        ELSE "run_model"
        /\ (node = "decide_next_step" /\ LastMessage.role = "ai" /\ error_log = ""
              /\ CompletionDetected(LastMessage) /\ LastMessage.tool_calls # <<>>)
            => node' = "END"
        /\ (LastMessage.role = "ai" /\ CompletionDetected(LastMessage))
            => ~IsCallToolStep ]_vars

\* C32's case: a heuristic completion that also requested tools ended the loop
C32_Witness ==
    /\ node = "END"
    /\ route = "END"
    /\ error_log = ""
    /\ Len(messages) < RECURSION_LIMIT
    /\ ~ContainsFinalAnswer(LastMessage.content)
    /\ LastMessage.tool_calls # <<>>

\* the session ended through the explicit marker check and was reported
AcceptedExplicitly ==
    /\ report = "success"
    /\ route = "END"
    /\ Len(messages) < RECURSION_LIMIT
    /\ ContainsFinalAnswer(LastMessage.content)

\* C33: for every final text the router accepts through the explicit marker
\* check, the artifact the driver extracts no longer contains the sentinel
\* phrase, in whatever letter case or position the router accepted it.
C33_ExtractionRemovesAcceptedSentinel ==
    AcceptedExplicitly => ~ContainsFinalAnswer(artifact)

\* C34: whenever the loop has terminated through END, the last message is a
\* model response whose text satisfied the explicit or the heuristic
\* completion check.
C34_EndMeansCompletedResponse ==
    node = "END" => (LastMessage.role = "ai" /\ CompletionDetected(LastMessage))

\* func(*args, **kwargs) has returned normally: result[0] is set, the worker
\* is in finalize_langsmith_trace or has exited
FunctionReturned == node = "END" /\ worker \in {"finalize", "dead"}

\* C35: once the wrapped function has returned normally with the deadline
\* not yet passed, run_with_timeout does not raise TimeoutException: the
\* driver never goes on to report a timeout, also while the worker is in
\* trace finalization.
C35_ReturnInTimeIsNotTimeout ==
    [][(FunctionReturned /\ report = "none") => report' # "timeout"]_vars

\* C36: run_with_timeout has exactly one outcome, fixed when the caller's
\* wait ends: the result (worker dead, loop ended), the function's
\* exception (worker dead, a node raised) or TimeoutException (worker still
\* alive); whatever the abandoned worker does afterwards, the outcome the
\* driver reported and the text it printed stay as they were.
C36_OneOutcomeNeverRevised ==
    [][ /\ report # "none" => (report' = report /\ artifact' = artifact)
        /\ (report = "none" /\ report' # "none")
            => \/ report' = "success" /\ worker = "dead" /\ node = "END"
               \/ report' = "error" /\ worker = "dead" /\ node = "raised"
               \/ report' = "timeout" /\ worker # "dead" ]_vars

\* C36's case: the worker abandoned at the deadline later completed the loop
C36_Witness ==
    /\ report = "timeout"
    /\ worker = "dead"
    /\ node = "END"
    /\ Len(trace) >= 3

\* every tool request of every model response in the history has a later
\* observation carrying its id
NoPendingRequests(msgs) ==
    \A i \in 1..Len(msgs) :
        \A k \in 1..Len(msgs[i].tool_calls) :
            \E j \in (i + 1)..Len(msgs) :
                /\ msgs[j].role = "tool"
                /\ msgs[j].tool_call_id = msgs[i].tool_calls[k].id

\* C37: every run_model step, whether the model answers or raises, starts
\* on a history with no pending tool request.
C37_ModelNeverSeesPendingRequests ==
    [][trace' = Append(trace, "R") => NoPendingRequests(messages)]_vars

\* C37's case: the model was invoked again after a response with two tool
\* requests had been answered
C37_Witness ==
    /\ Len(trace) >= 3
    /\ trace[Len(trace)] = "R"
    /\ \E i \in 1..(Len(messages) - 3) :
          /\ Len(messages[i].tool_calls) = 2
          /\ messages[i + 1].role = "tool"
          /\ messages[i + 2].role = "tool"
          /\ messages[i + 3].role = "ai"

C39_RetrieverChangesOnlyOnSuccess ==
    [][ IF arg.fn = "init_knowledge_base"
        THEN IF arg.documents # <<>> /\ arg.outcome = "ok"
             THEN /\ KLARO_RETRIEVER' = "retriever"
                  /\ result'.value = "successfully initialized"
             ELSE /\ KLARO_RETRIEVER' = KLARO_RETRIEVER
                  /\ result'.value = IF arg.documents = <<>>
                                     THEN "Warning: No documents provided"
                                     ELSE "Error initializing knowledge base"
        ELSE KLARO_RETRIEVER' = KLARO_RETRIEVER ]_vars

\* C39's case: a failed call with documents left the earlier retriever in place
C39_Witness ==
    /\ arg.fn = "init_knowledge_base"
    /\ arg.documents # <<>>
    /\ arg.outcome = "failed"
    /\ result.returned
    /\ KLARO_RETRIEVER = "earlier_retriever"

\* C40: on every state with a non-empty history decide_next_step returns
\* one of "run_model", "call_tool" and END; on an empty history it fails
\* with an index error.
C40_RouterTotalOnNonEmptyHistory ==
    route # "none" =>
        IF messages = <<>>
        THEN route = "IndexError"
        ELSE route \in {"run_model", "call_tool", "END"}

=============================================================================
